---- MODULE Spec2Model ----
(***************************************************************************)
(* Model of the refund-reconciliation and aggregation pipeline of app.py:  *)
(* process_files, clean_brand_names, remove_refunds_and_original_sales,    *)
(* create_report_sheet and create_all_brands_summary.                      *)
(*                                                                         *)
(* A pandas DataFrame is a record [columns, rows]: columns is the sequence *)
(* of column names, rows the sequence of rows in frame order, each row a   *)
(* record [idx, cells] with idx its index label and cells aligned with     *)
(* columns.  A cell is NaN (an empty spreadsheet cell), a number or a      *)
(* string; strings are sequences of one-character strings so that strip()  *)
(* and title() are computed.                                               *)
(***************************************************************************)
EXTENDS Integers, Sequences, FiniteSets, TLC

VARIABLES
    pc,                \* position of the run
    sales_file,        \* the sales sheet as pd.read_excel returned it
    inventory_file,    \* the inventory sheet as pd.read_excel returned it
    in_sales,          \* the caller's sales DataFrame object
    in_inventory,      \* the caller's inventory DataFrame object
    sales_df,          \* local sales_df of process_files / parameter of reconcile
    inventory_df,      \* local inventory_df of process_files
    brand_settings_dict, \* brand -> [deal_percentage, rent_amount]
    refunds,           \* remove_refunds_and_original_sales: the refunds frame rows
    ri,                \* position of the refund loop in refunds
    indices_to_remove, \* remove_refunds_and_original_sales: the removal set
    consumed,          \* history: <<refund idx, original idx>> per add of line 84
    cleaned_df,        \* value returned by remove_refunds_and_original_sales
    refund_count,      \* second value returned
    removed_count,     \* third value returned
    brands,            \* process_files: sales_df['brand'].dropna().unique()
    bi,                \* position of the brand loop
    reports,           \* per-brand report values, in emission order
    summary,           \* values of the Summary Report sheet
    product_sales,     \* get_best_selling_products: the dict, in insertion order
    pi,                \* get_best_selling_products: position of the row loop
    best_products,     \* get_best_selling_products: the list of line 131
    best_result        \* get_best_selling_products: the value returned

vars == <<pc, sales_file, inventory_file, in_sales, in_inventory, sales_df, inventory_df, brand_settings_dict,
          refunds, ri, indices_to_remove, consumed, cleaned_df, refund_count,
          removed_count, brands, bi, reports, summary,
          product_sales, pi, best_products, best_result>>

analytics == <<product_sales, pi, best_products, best_result>>

----------------------------------------------------------------------------
(* Bounds of the checked instances *)

MaxRows == 4
MaxRawRows == 2

----------------------------------------------------------------------------
(* Cell values *)

NaN == [k |-> "nan", n |-> 0, s |-> <<>>]
Num(n) == [k |-> "num", n |-> n, s |-> <<>>]
Str(s) == [k |-> "str", n |-> 0, s |-> s]

IsNaN(v) == v.k = "nan"
IsNum(v) == v.k = "num"
IsStr(v) == v.k = "str"

(* Python/pandas elementwise ==: NaN equals nothing, not even NaN *)
PyEq(a, b) ==
    /\ a.k = b.k
    /\ ~IsNaN(a)
    /\ a.n = b.n
    /\ a.s = b.s

(* x + y of Python numbers with NaN propagation (row-by-row accumulation) *)
PyAdd(a, b) == IF IsNaN(a) \/ IsNaN(b) THEN NaN ELSE Num(a.n + b.n)

(* x * y of Python numbers with NaN propagation *)
PyMul(a, b) == IF IsNaN(a) \/ IsNaN(b) THEN NaN ELSE Num(a.n * b.n)

----------------------------------------------------------------------------
(* Strings *)

LowerCase == <<"a","b","c","d","e","f","g","h","i","j","k","l","m",
               "n","o","p","q","r","s","t","u","v","w","x","y","z">>
UpperCase == <<"A","B","C","D","E","F","G","H","I","J","K","L","M",
               "N","O","P","Q","R","S","T","U","V","W","X","Y","Z">>

IsLower(c) == \E i \in 1..26 : LowerCase[i] = c
IsUpper(c) == \E i \in 1..26 : UpperCase[i] = c
IsCased(c) == IsLower(c) \/ IsUpper(c)
ToUpper(c) == IF IsLower(c) THEN UpperCase[CHOOSE i \in 1..26 : LowerCase[i] = c] ELSE c
ToLower(c) == IF IsUpper(c) THEN LowerCase[CHOOSE i \in 1..26 : UpperCase[i] = c] ELSE c

IsSpace(c) == c = " "

RECURSIVE LStrip(_)
LStrip(s) == IF s # <<>> /\ IsSpace(Head(s)) THEN LStrip(Tail(s)) ELSE s

RECURSIVE RStrip(_)
RStrip(s) ==
    IF s # <<>> /\ IsSpace(s[Len(s)]) THEN RStrip(SubSeq(s, 1, Len(s) - 1)) ELSE s

(* str.strip() *)
Strip(s) == RStrip(LStrip(s))

(* str.title(): a cased character is upper-cased when it does not follow a *)
(* cased character and lower-cased when it does                            *)
Title(s) ==
    [i \in 1..Len(s) |->
        IF i > 1 /\ IsCased(s[i - 1]) THEN ToLower(s[i]) ELSE ToUpper(s[i])]

Digits == <<"0","1","2","3","4","5","6","7","8","9">>

RECURSIVE NatStr(_)
NatStr(n) == IF n < 10 THEN <<Digits[n + 1]>> ELSE NatStr(n \div 10) \o <<Digits[(n % 10) + 1]>>

(* astype(str) of one cell: str(value); an empty cell becomes the text nan *)
AsStr(v) ==
    IF IsStr(v) THEN v.s
    ELSE IF IsNaN(v) THEN <<"n","a","n">>
    ELSE IF v.n < 0 THEN <<"-">> \o NatStr(-v.n)
    ELSE NatStr(v.n)

----------------------------------------------------------------------------
(* Column names *)

c_brand == <<"b","r","a","n","d">>
c_barcode == <<"b","a","r","c","o","d","e">>
c_quantity == <<"q","u","a","n","t","i","t","y">>
c_total == <<"t","o","t","a","l">>
c_available_quantity == <<"a","v","a","i","l","a","b","l","e","_","q","u","a","n","t","i","t","y">>
c_sale_price == <<"s","a","l","e","_","p","r","i","c","e">>

----------------------------------------------------------------------------
(* DataFrame access *)

HasColumn(df, name) == \E i \in 1..Len(df.columns) : df.columns[i] = name

ColPos(df, name) == CHOOSE i \in 1..Len(df.columns) :
    /\ df.columns[i] = name
    /\ \A j \in 1..(i - 1) : df.columns[j] # name

(* df[name] of one row; the column exists *)
Cell(df, row, name) == row.cells[ColPos(df, name)]

(* row.get(name, default) *)
Get(df, row, name, default) ==
    IF HasColumn(df, name) THEN Cell(df, row, name) ELSE default

RECURSIVE SelectRows(_, _)
(* the rows of a sequence whose index label is in keep, in frame order *)
SelectRows(rows, keep) ==
    IF rows = <<>> THEN <<>>
    ELSE IF Head(rows).idx \in keep
         THEN <<Head(rows)>> \o SelectRows(Tail(rows), keep)
         ELSE SelectRows(Tail(rows), keep)

IndexOf(df) == {df.rows[i].idx : i \in 1..Len(df.rows)}

RowAt(df, label) == df.rows[CHOOSE i \in 1..Len(df.rows) : df.rows[i].idx = label]

----------------------------------------------------------------------------
(* remove_refunds_and_original_sales *)

(* the comparison written as <= 0: a zero-quantity row counts as a refund *)
IsRefund_NonPositive(df, row) ==
    LET q == Cell(df, row, c_quantity) IN IsNum(q) /\ q.n <= 0

(* the comparison  sales_df['quantity'] < 0  of one cell; NaN < 0 is False *)
IsRefund(df, row) ==
    LET q == Cell(df, row, c_quantity) IN IsNum(q) /\ q.n < 0

(* the comparison  sales_df['quantity'] > 0  of one cell *)
IsPositive(df, row) ==
    LET q == Cell(df, row, c_quantity) IN IsNum(q) /\ q.n > 0

(* comparing an object column that holds a str with 0 raises TypeError *)
QuantityRaises(df) ==
    \E i \in 1..Len(df.rows) : IsStr(Cell(df, df.rows[i], c_quantity))

(* refunds = sales_df[sales_df['quantity'] < 0] : index labels, frame order kept *)
RefundLabels(df) == {df.rows[i].idx : i \in {j \in 1..Len(df.rows) : IsRefund(df, df.rows[j])}}

(* abs(refund_row.get('quantity', 0)) *)
RefundQty(df, refund_row) ==
    LET q == Cell(df, refund_row, c_quantity) IN Num(IF q.n < 0 THEN -q.n ELSE q.n)

(* the mask without the removal-set test of line 78 *)
IsPotentialOriginal_IgnoreRemoved(df, row, refund_row, removeSet) ==
    /\ PyEq(Cell(df, row, c_barcode), Cell(df, refund_row, c_barcode))
    /\ PyEq(Cell(df, row, c_brand), Cell(df, refund_row, c_brand))
    /\ LET q == Cell(df, row, c_quantity) IN IsNum(q) /\ q.n > 0

(* the mask without the brand test of line 76 *)
IsPotentialOriginal_IgnoreBrand(df, row, refund_row, removeSet) ==
    /\ PyEq(Cell(df, row, c_barcode), Cell(df, refund_row, c_barcode))
    /\ LET q == Cell(df, row, c_quantity) IN IsNum(q) /\ q.n > 0
    /\ row.idx \notin removeSet

(* the mask with the extra demand that the sale precedes the refund *)
IsPotentialOriginal_BeforeRefund(df, row, refund_row, removeSet) ==
    /\ PyEq(Cell(df, row, c_barcode), Cell(df, refund_row, c_barcode))
    /\ PyEq(Cell(df, row, c_brand), Cell(df, refund_row, c_brand))
    /\ LET q == Cell(df, row, c_quantity) IN IsNum(q) /\ q.n > 0
    /\ row.idx \notin removeSet
    /\ row.idx < refund_row.idx

(* the mask of lines 74-79 for one row *)
IsPotentialOriginal(df, row, refund_row, removeSet) ==
    /\ PyEq(Cell(df, row, c_barcode), Cell(df, refund_row, c_barcode))
    /\ PyEq(Cell(df, row, c_brand), Cell(df, refund_row, c_brand))
    /\ IsPositive(df, row)
    /\ row.idx \notin removeSet

(* matching_sales without the exact-quantity filter of line 81 *)
MatchingLabels_AnyQuantity(df, refund_row, removeSet) ==
    {df.rows[i].idx : i \in {j \in 1..Len(df.rows) :
        IsPotentialOriginal(df, df.rows[j], refund_row, removeSet)}}

(* matching_sales of line 81: index labels of the exact-quantity candidates *)
MatchingLabels(df, refund_row, removeSet) ==
    {df.rows[i].idx : i \in {j \in 1..Len(df.rows) :
        /\ IsPotentialOriginal(df, df.rows[j], refund_row, removeSet)
        /\ PyEq(Cell(df, df.rows[j], c_quantity), RefundQty(df, refund_row))}}

(* matching_sales.index[-1]: the label of the last matching row in frame order *)
FirstLabel_Last(df, labels) ==
    LET p == CHOOSE i \in 1..Len(df.rows) :
                /\ df.rows[i].idx \in labels
                /\ \A j \in (i + 1)..Len(df.rows) : df.rows[j].idx \notin labels
    IN df.rows[p].idx

(* matching_sales.index[0]: the label of the first matching row in frame order *)
FirstLabel(df, labels) ==
    LET p == CHOOSE i \in 1..Len(df.rows) :
                /\ df.rows[i].idx \in labels
                /\ \A j \in 1..(i - 1) : df.rows[j].idx \notin labels
    IN df.rows[p].idx

RECURSIVE Reverse(_)
Reverse(q) == IF q = <<>> THEN <<>> ELSE Append(Reverse(Tail(q)), Head(q))

(* the cleaned frame with its rows in descending order *)
CleanedFrame_Reversed(df, removeSet) ==
    [columns |-> df.columns,
     rows |-> Reverse(SelectRows(df.rows, IndexOf(df) \ removeSet))]

(* sales_df[~sales_df.index.isin(indices_to_remove)].copy() *)
CleanedFrame(df, removeSet) ==
    [columns |-> df.columns, rows |-> SelectRows(df.rows, IndexOf(df) \ removeSet)]

(* lines 56-67: the early returns, the refunds frame and the initial removal set *)
ReconcileStart ==
    /\ pc = "reconcile"
    /\ IF ~HasColumn(sales_df, c_quantity) \/ ~HasColumn(sales_df, c_barcode)
       THEN /\ cleaned_df' = sales_df
            /\ refund_count' = 0
            /\ removed_count' = 0
            /\ pc' = "returned"
            /\ UNCHANGED <<refunds, ri, indices_to_remove>>
       ELSE IF QuantityRaises(sales_df)
       THEN /\ pc' = "error"
            /\ UNCHANGED <<cleaned_df, refund_count, removed_count, refunds, ri,
                           indices_to_remove>>
       ELSE IF RefundLabels(sales_df) = {}
       THEN /\ cleaned_df' = sales_df
            /\ refund_count' = 0
            /\ removed_count' = 0
            /\ pc' = "returned"
            /\ UNCHANGED <<refunds, ri, indices_to_remove>>
       ELSE /\ refunds' = SelectRows(sales_df.rows, RefundLabels(sales_df))
            /\ refund_count' = Len(refunds')
            /\ indices_to_remove' = RefundLabels(sales_df)
            /\ ri' = 1
            /\ pc' = "refund_loop"
            /\ UNCHANGED <<cleaned_df, removed_count>>
    /\ UNCHANGED analytics
    /\ UNCHANGED <<sales_file, inventory_file, in_sales, in_inventory, sales_df, inventory_df, brand_settings_dict,
                   consumed, brands, bi, reports, summary>>

(* lines 69-84: one iteration of the loop over refunds.iterrows() *)
ReconcileStep ==
    /\ pc = "refund_loop"
    /\ ri <= Len(refunds)
    /\ IF ~HasColumn(sales_df, c_brand)
       THEN /\ pc' = "error"
            /\ UNCHANGED <<indices_to_remove, consumed, ri>>
       ELSE LET refund_row == refunds[ri]
                matching_sales == MatchingLabels(sales_df, refund_row, indices_to_remove)
            IN /\ IF matching_sales # {}
                  THEN /\ indices_to_remove' =
                            indices_to_remove \cup {FirstLabel(sales_df, matching_sales)}
                       /\ consumed' = Append(consumed,
                            <<refund_row.idx, FirstLabel(sales_df, matching_sales)>>)
                  ELSE UNCHANGED <<indices_to_remove, consumed>>
               /\ ri' = ri + 1
               /\ pc' = pc
    /\ UNCHANGED analytics
    /\ UNCHANGED <<sales_file, inventory_file, in_sales, in_inventory, sales_df, inventory_df, brand_settings_dict,
                   refunds, cleaned_df, refund_count, removed_count, brands, bi,
                   reports, summary>>

(* lines 86-89: the cleaned frame and the removed count *)
ReconcileFinish ==
    /\ pc = "refund_loop"
    /\ ri > Len(refunds)
    /\ cleaned_df' = CleanedFrame(sales_df, indices_to_remove)
    /\ removed_count' = Len(sales_df.rows) - Len(cleaned_df'.rows)
    /\ pc' = "returned"
    /\ UNCHANGED analytics
    /\ UNCHANGED <<sales_file, inventory_file, in_sales, in_inventory, sales_df, inventory_df, brand_settings_dict,
                   refunds, ri, indices_to_remove, consumed, refund_count, brands, bi,
                   reports, summary>>

----------------------------------------------------------------------------
(* process_files: normalization *)

(* df.columns = df.columns.str.strip() *)
StripColumns(df) ==
    [columns |-> [i \in 1..Len(df.columns) |-> Strip(df.columns[i])], rows |-> df.rows]

(* df['brand'].astype(str).str.strip().str.title() of one cell *)
CleanBrand(v) == Str(Title(Strip(AsStr(v))))

(* clean_brand_names: the frame after the assignment to df['brand'] *)
clean_brand_names(df) ==
    IF HasColumn(df, c_brand)
    THEN [columns |-> df.columns,
          rows |-> [i \in 1..Len(df.rows) |->
                      [idx |-> df.rows[i].idx,
                       cells |-> [j \in 1..Len(df.columns) |->
                                    IF j = ColPos(df, c_brand)
                                    THEN CleanBrand(df.rows[i].cells[j])
                                    ELSE df.rows[i].cells[j]]]]]
    ELSE df

AllNaN(row) == \A j \in 1..Len(row.cells) : IsNaN(row.cells[j])

(* df.dropna(how='all'): a new frame without the rows whose cells are all empty *)
DropNa(df) ==
    [columns |-> df.columns,
     rows |-> SelectRows(df.rows,
                {df.rows[i].idx : i \in {j \in 1..Len(df.rows) : ~AllNaN(df.rows[j])}})]

(* lines 424-425: the column names of the caller's frames are replaced in place *)
ProcessStripColumns ==
    /\ pc = "start"
    /\ in_sales' = StripColumns(in_sales)
    /\ in_inventory' = StripColumns(in_inventory)
    /\ sales_df' = in_sales'
    /\ inventory_df' = in_inventory'
    /\ pc' = "stripped"
    /\ UNCHANGED analytics
    /\ UNCHANGED <<sales_file, inventory_file, brand_settings_dict, refunds, ri,
                   indices_to_remove, consumed,
                   cleaned_df, refund_count, removed_count, brands, bi, reports, summary>>

(* lines 427-428: clean_brand_names assigns the brand column of the caller's frames *)
ProcessCleanBrands ==
    /\ pc = "stripped"
    /\ in_sales' = clean_brand_names(in_sales)
    /\ in_inventory' = clean_brand_names(in_inventory)
    /\ sales_df' = in_sales'
    /\ inventory_df' = in_inventory'
    /\ pc' = "cleaned"
    /\ UNCHANGED analytics
    /\ UNCHANGED <<sales_file, inventory_file, brand_settings_dict, refunds, ri,
                   indices_to_remove, consumed,
                   cleaned_df, refund_count, removed_count, brands, bi, reports, summary>>

(* lines 430-431: dropna returns new frames, bound to the local names *)
ProcessDropNa ==
    /\ pc = "cleaned"
    /\ sales_df' = DropNa(sales_df)
    /\ inventory_df' = DropNa(inventory_df)
    /\ pc' = "reconcile"
    /\ UNCHANGED analytics
    /\ UNCHANGED <<sales_file, inventory_file, in_sales, in_inventory, brand_settings_dict, refunds, ri,
                   indices_to_remove, consumed, cleaned_df, refund_count, removed_count,
                   brands, bi, reports, summary>>

----------------------------------------------------------------------------
(* process_files: brands, per-brand reports and the summary *)

RECURSIVE Unique(_, _)
(* Series.dropna().unique(): the distinct non-empty values in order of appearance *)
Unique(cells, seen) ==
    IF cells = <<>> THEN <<>>
    ELSE IF IsNaN(Head(cells)) \/ Head(cells) \in seen
         THEN Unique(Tail(cells), seen)
         ELSE <<Head(cells)>> \o Unique(Tail(cells), seen \cup {Head(cells)})

Column(df, name) == [i \in 1..Len(df.rows) |-> Cell(df, df.rows[i], name)]

(* df[df['brand'] == brand] *)
BrandRows(df, brand) ==
    [columns |-> df.columns,
     rows |-> SelectRows(df.rows,
                {df.rows[i].idx : i \in {j \in 1..Len(df.rows) :
                    PyEq(Cell(df, df.rows[j], c_brand), brand)}})]

RECURSIVE SumSkipNa(_)
(* Series.sum(): empty cells are skipped *)
SumSkipNa(cells) ==
    IF cells = <<>> THEN 0
    ELSE (IF IsNum(Head(cells)) THEN Head(cells).n ELSE 0) + SumSkipNa(Tail(cells))

RECURSIVE Accumulate(_)
(* total = 0; for row: total += value  -- an empty cell makes the total NaN *)
Accumulate(cells) ==
    IF cells = <<>> THEN Num(0)
    ELSE PyAdd(Head(cells), Accumulate(Tail(cells)))

(* data.get(name, pd.Series([0])).sum() *)
GetSum(df, name) == IF HasColumn(df, name) THEN SumSkipNa(Column(df, name)) ELSE 0

(* [row.get(name, 0) for row in df.iterrows()] *)
GetColumn(df, name) == [i \in 1..Len(df.rows) |-> Get(df, df.rows[i], name, Num(0))]

HasStr(cells) == \E i \in 1..Len(cells) : IsStr(cells[i])

(* brand_settings_dict.get(brand, {'deal_percentage': 0, 'rent_amount': 0}) *)
SettingsOf(dict, brand) ==
    IF brand \in DOMAIN dict THEN dict[brand] ELSE [deal_percentage |-> 0, rent_amount |-> 0]

(* create_sales_details_sheet: 0 + 'text' raises TypeError *)
SalesSheetRaises(df) ==
    HasStr(GetColumn(df, c_quantity)) \/ HasStr(GetColumn(df, c_total))

(* (available_quantity * sale_price).sum() of create_report_sheet *)
InventoryValue(df) ==
    IF HasColumn(df, c_available_quantity) /\ HasColumn(df, c_sale_price)
    THEN SumSkipNa([i \in 1..Len(df.rows) |->
            PyMul(Cell(df, df.rows[i], c_available_quantity),
                  Cell(df, df.rows[i], c_sale_price))])
    ELSE 0

(* create_report_sheet: the values of the Report sheet.  Money after a      *)
(* percentage is kept in hundredths (x100) so that pct/100 stays exact.     *)
create_report_sheet(brand_name, sales_data, inventory_data, settings) ==
    LET total_sales_money == GetSum(sales_data, c_total)
        after_pct == 100 * total_sales_money - total_sales_money * settings.deal_percentage
    IN [brand |-> brand_name,
        total_inventory_qty |-> GetSum(inventory_data, c_available_quantity),
        total_inventory_value |-> InventoryValue(inventory_data),
        total_sales_qty |-> GetSum(sales_data, c_quantity),
        total_sales_money |-> total_sales_money,
        total_after_percentage_x100 |-> after_pct,
        total_after_rent_x100 |-> after_pct - 100 * settings.rent_amount]

(* line 434 (the assignment of the returned values) and line 436 *)
ProcessDetectBrands ==
    /\ pc = "returned"
    /\ sales_df' = cleaned_df
    /\ IF ~HasColumn(cleaned_df, c_brand)
       THEN /\ pc' = "error"
            /\ UNCHANGED <<brands, bi>>
       ELSE /\ brands' = Unique(Column(cleaned_df, c_brand), {})
            /\ bi' = 1
            /\ pc' = "brand_loop"
    /\ UNCHANGED analytics
    /\ UNCHANGED <<sales_file, inventory_file, in_sales, in_inventory, inventory_df, brand_settings_dict, refunds, ri,
                   indices_to_remove, consumed, cleaned_df, refund_count, removed_count,
                   reports, summary>>

(* lines 445-479: one iteration of the loop over brands *)
ProcessBrand ==
    /\ pc = "brand_loop"
    /\ bi <= Len(brands)
    /\ LET brand == brands[bi]
           brand_sales == BrandRows(sales_df, brand)
       IN IF ~HasColumn(inventory_df, c_brand)
          THEN /\ pc' = "error"
               /\ UNCHANGED <<bi, reports>>
          ELSE IF Len(brand_sales.rows) = 0
          THEN /\ bi' = bi + 1
               /\ UNCHANGED <<pc, reports>>
          ELSE IF SalesSheetRaises(brand_sales)
          THEN /\ pc' = "error"
               /\ UNCHANGED <<bi, reports>>
          ELSE /\ reports' = Append(reports,
                    create_report_sheet(brand.s, brand_sales,
                        BrandRows(inventory_df, brand),
                        SettingsOf(brand_settings_dict, brand.s)))
               /\ bi' = bi + 1
               /\ pc' = pc
    /\ UNCHANGED analytics
    /\ UNCHANGED <<sales_file, inventory_file, in_sales, in_inventory, sales_df, inventory_df, brand_settings_dict,
                   refunds, ri, indices_to_remove, consumed, cleaned_df, refund_count,
                   removed_count, brands, summary>>

RECURSIVE BrandDeductions(_, _, _)
(* lines 372-387: <<total_percentage_deducted x100, total_rent_deducted>> *)
BrandDeductions(df, dict, bs) ==
    IF bs = <<>> THEN <<0, 0>>
    ELSE LET brand_total == SumSkipNa(Column(BrandRows(df, Head(bs)), c_total))
             settings == SettingsOf(dict, Head(bs).s)
             rest == BrandDeductions(df, dict, Tail(bs))
         IN <<brand_total * settings.deal_percentage + rest[1],
              settings.rent_amount + rest[2]>>

(* create_all_brands_summary raises: text in a summed column, or no brand/total column *)
SummaryRaises(sdf, idf) ==
    \/ SalesSheetRaises(sdf)
    \/ HasStr(GetColumn(idf, c_available_quantity))
    \/ HasStr(GetColumn(idf, c_sale_price))
    \/ ~HasColumn(sdf, c_brand)
    \/ (Len(sdf.rows) > 0 /\ ~HasColumn(sdf, c_total))

(* create_all_brands_summary: the values of the Summary Report sheet *)
create_all_brands_summary(sdf, idf, dict) ==
    LET total_sales_money == Accumulate(GetColumn(sdf, c_total))
        ded == BrandDeductions(sdf, dict, Unique(Column(sdf, c_brand), {}))
    IN [total_sales_money |-> total_sales_money,
        total_sales_qty |-> Accumulate(GetColumn(sdf, c_quantity)),
        total_inventory_qty |-> Accumulate(GetColumn(idf, c_available_quantity)),
        total_inventory_value |-> Accumulate([i \in 1..Len(idf.rows) |->
            PyMul(Get(idf, idf.rows[i], c_available_quantity, Num(0)),
                  Get(idf, idf.rows[i], c_sale_price, Num(0)))]),
        total_percentage_deducted_x100 |-> ded[1],
        total_rent_deducted |-> ded[2],
        total_after_all_deductions_x100 |->
            IF IsNaN(total_sales_money) THEN NaN
            ELSE Num(100 * total_sales_money.n - ded[1] - 100 * ded[2])]

(* lines 481-494: the All_Brands_Summary workbook, then the archive is returned *)
ProcessSummary ==
    /\ pc = "brand_loop"
    /\ bi > Len(brands)
    /\ IF SummaryRaises(sales_df, inventory_df)
       THEN /\ pc' = "error"
            /\ UNCHANGED summary
       ELSE /\ summary' = <<create_all_brands_summary(sales_df, inventory_df,
                                                       brand_settings_dict)>>
            /\ pc' = "done"
    /\ UNCHANGED analytics
    /\ UNCHANGED <<sales_file, inventory_file, in_sales, in_inventory, sales_df, inventory_df, brand_settings_dict,
                   refunds, ri, indices_to_remove, consumed, cleaned_df, refund_count,
                   removed_count, brands, bi, reports>>

----------------------------------------------------------------------------
(* Inputs of the reconciler: normalized sales frames with index 0..n-1 *)

s_nike == <<"N","i","k","e">>
s_zara == <<"Z","a","r","a">>
s_x1 == <<"X","1">>
s_x2 == <<"X","2">>

ReconcileColumns == <<c_brand, c_barcode, c_quantity>>

(* a brand with two barcodes and a barcode carried by two brands *)
Products == {<<s_nike, s_x1>>, <<s_nike, s_x2>>, <<s_zara, s_x1>>}

(* every product is sold and refunded by the unit; the first product also  *)
(* has a zero row and sales and refunds of another quantity                *)
ReconcileCells ==
    {<<Str(p[1]), Str(p[2]), Num(q)>> : p \in Products, q \in {-1, 1}}
        \cup {<<Str(s_nike), Str(s_x1), Num(q)>> : q \in {-2, 0, 2}}

EmptyFrame == [columns |-> <<>>, rows |-> <<>>]

(* the frame read from a sheet with the given columns and cell rows, RangeIndex *)
Frame(cols, cellRows) ==
    [columns |-> cols,
     rows |-> [i \in 1..Len(cellRows) |-> [idx |-> i - 1, cells |-> cellRows[i]]]]

InitLocals ==
    /\ refunds = <<>>
    /\ ri = 0
    /\ indices_to_remove = {}
    /\ consumed = <<>>
    /\ cleaned_df = EmptyFrame
    /\ refund_count = 0
    /\ removed_count = 0
    /\ brands = <<>>
    /\ bi = 0
    /\ reports = <<>>
    /\ summary = <<>>
    /\ product_sales = <<>>
    /\ pi = 0
    /\ best_products = <<>>
    /\ best_result = <<>>

(* a direct call of remove_refunds_and_original_sales on a sales frame *)
Init ==
    /\ pc = "reconcile"
    /\ \E n \in 0..MaxRows : \E f \in [1..n -> ReconcileCells] :
            in_sales = Frame(ReconcileColumns, f)
    /\ sales_file = in_sales
    /\ sales_df = in_sales
    /\ in_inventory = EmptyFrame
    /\ inventory_file = in_inventory
    /\ inventory_df = in_inventory
    /\ brand_settings_dict = <<>>
    /\ InitLocals

Next == ReconcileStart \/ ReconcileStep \/ ReconcileFinish

Spec == Init /\ [][Next]_vars

----------------------------------------------------------------------------
(* Inputs of process_files: frames as read from the two sheets *)

s_raw_nike == <<" ","n","i","k","e">>
s_abc == <<"a","b","c">>

Padded(name) == <<" ">> \o name \o <<" ">>

SalesColumns == <<c_brand, c_barcode, c_quantity, c_total>>
InventoryColumns == <<c_brand, c_available_quantity, c_sale_price>>

PadAll(cols) == [i \in 1..Len(cols) |-> Padded(cols[i])]

RawBrandCells == {NaN, Str(s_raw_nike), Str(s_zara)}
RawBarcodeCells == {NaN, Str(s_x1)}
RawQuantityCells == {NaN, Num(-1), Num(1), Str(s_abc)}
RawTotalCells == {NaN, Num(5)}

RawSalesCells == {<<b, c, q, t>> : b \in RawBrandCells, c \in RawBarcodeCells,
                                   q \in RawQuantityCells, t \in RawTotalCells}

RawInventories == {<<<<Str(s_raw_nike), Num(10), Num(50)>>>>,
                   <<<<NaN, NaN, NaN>>, <<Str(s_zara), Num(2), NaN>>>>}

SettingsChoice == [x \in {s_nike} |-> [deal_percentage |-> 10, rent_amount |-> 100]]

(* a call of process_files on the frames read from the uploaded sheets *)
InitPipeline ==
    /\ pc = "start"
    /\ \E n \in 0..MaxRawRows : \E f \in [1..n -> RawSalesCells] :
       \E inv \in RawInventories : \E padded \in BOOLEAN :
            /\ in_sales = Frame(IF padded THEN PadAll(SalesColumns) ELSE SalesColumns, f)
            /\ in_inventory =
                 Frame(IF padded THEN PadAll(InventoryColumns) ELSE InventoryColumns, inv)
    /\ sales_file = in_sales
    /\ inventory_file = in_inventory
    /\ sales_df = in_sales
    /\ inventory_df = in_inventory
    /\ brand_settings_dict = SettingsChoice
    /\ InitLocals

NextPipeline ==
    \/ ProcessStripColumns
    \/ ProcessCleanBrands
    \/ ProcessDropNa
    \/ ReconcileStart
    \/ ReconcileStep
    \/ ReconcileFinish
    \/ ProcessDetectBrands
    \/ ProcessBrand
    \/ ProcessSummary

SpecPipeline == InitPipeline /\ [][NextPipeline]_vars

----------------------------------------------------------------------------
(* get_best_selling_products *)

c_name_ar == <<"n","a","m","e","_","a","r">>

(* product_sales.get(name, 0) *)
DictGet(d, name) ==
    IF \E i \in 1..Len(d) : d[i].name = name
    THEN d[CHOOSE i \in 1..Len(d) : d[i].name = name].sales
    ELSE Num(0)

(* d[name] = value: a new key goes to the end, an old key keeps its place *)
DictSet(d, name, value) ==
    IF \E i \in 1..Len(d) : d[i].name = name
    THEN [i \in 1..Len(d) |-> IF d[i].name = name THEN [name |-> name, sales |-> value]
                                                  ELSE d[i]]
    ELSE Append(d, [name |-> name, sales |-> value])

(* a > b of Python numbers; every comparison with NaN is False *)
PyGt(a, b) == IsNum(a) /\ IsNum(b) /\ a.n > b.n

RECURSIVE PyMaxFrom(_, _)
(* max(): the running maximum is replaced by a later item only when item > maximum *)
PyMaxFrom(m, items) ==
    IF items = <<>> THEN m
    ELSE PyMaxFrom(IF PyGt(Head(items), m) THEN Head(items) ELSE m, Tail(items))

(* max(product_sales.values()) of a non-empty dict *)
MaxSales(d) == PyMaxFrom(d[1].sales, Tail([i \in 1..Len(d) |-> d[i].sales]))

RECURSIVE FilterEq(_, _)
FilterEq(d, m) ==
    IF d = <<>> THEN <<>>
    ELSE IF PyEq(Head(d).sales, m)
         THEN <<Head(d).name>> \o FilterEq(Tail(d), m)
         ELSE FilterEq(Tail(d), m)

(* max(product_sales, key=product_sales.get): one winner, the first with the maximum *)
BestProducts_SingleWinner(d) ==
    LET all == FilterEq(d, MaxSales(d)) IN IF all = <<>> THEN <<>> ELSE <<Head(all)>>

(* line 130-131: [product for product, sales in items() if sales == max_sales] *)
BestProducts(d) == FilterEq(d, MaxSales(d))

RECURSIVE Join(_, _)
(* sep.join(names) *)
Join(names, sep) ==
    IF names = <<>> THEN <<>>
    ELSE IF Len(names) = 1 THEN Head(names)
    ELSE Head(names) \o sep \o Join(Tail(names), sep)

CommaSpace == <<",", " ">>

(* lines 115-118: the early return, or the empty dict before the loop *)
BestStart ==
    /\ pc = "best_products"
    /\ IF Len(sales_df.rows) = 0 \/ ~HasColumn(sales_df, c_name_ar)
       THEN /\ best_result' = <<>>
            /\ pc' = "best_done"
            /\ UNCHANGED <<product_sales, pi, best_products>>
       ELSE /\ product_sales' = <<>>
            /\ pi' = 1
            /\ pc' = "best_loop"
            /\ UNCHANGED <<best_products, best_result>>
    /\ UNCHANGED <<sales_file, inventory_file, in_sales, in_inventory, sales_df,
                   inventory_df, brand_settings_dict, refunds, ri, indices_to_remove,
                   consumed, cleaned_df, refund_count, removed_count, brands, bi,
                   reports, summary>>

(* lines 120-125: one iteration of the loop over sales_data.iterrows() *)
BestStep ==
    /\ pc = "best_loop"
    /\ pi <= Len(sales_df.rows)
    /\ LET row == sales_df.rows[pi]
           product_name == AsStr(Cell(sales_df, row, c_name_ar))
           quantity == Get(sales_df, row, c_quantity, Num(0))
       IN IF product_name # <<>> /\ IsStr(quantity)
          THEN /\ pc' = "error"
               /\ UNCHANGED <<product_sales, pi>>
          ELSE /\ product_sales' =
                    IF product_name # <<>>
                    THEN DictSet(product_sales, product_name,
                                 PyAdd(DictGet(product_sales, product_name), quantity))
                    ELSE product_sales
               /\ pi' = pi + 1
               /\ pc' = pc
    /\ UNCHANGED <<best_products, best_result>>
    /\ UNCHANGED <<sales_file, inventory_file, in_sales, in_inventory, sales_df,
                   inventory_df, brand_settings_dict, refunds, ri, indices_to_remove,
                   consumed, cleaned_df, refund_count, removed_count, brands, bi,
                   reports, summary>>

(* lines 127-136: the maximum, the products that reach it, and the text returned *)
BestFinish ==
    /\ pc = "best_loop"
    /\ pi > Len(sales_df.rows)
    /\ IF product_sales = <<>>
       THEN /\ best_result' = <<>>
            /\ UNCHANGED best_products
       ELSE /\ best_products' = BestProducts(product_sales)
            /\ best_result' = IF Len(best_products') = 1
                              THEN best_products'[1]
                              ELSE Join(best_products', CommaSpace)
    /\ pc' = "best_done"
    /\ UNCHANGED <<product_sales, pi>>
    /\ UNCHANGED <<sales_file, inventory_file, in_sales, in_inventory, sales_df,
                   inventory_df, brand_settings_dict, refunds, ri, indices_to_remove,
                   consumed, cleaned_df, refund_count, removed_count, brands, bi,
                   reports, summary>>

(* Inputs of get_best_selling_products: product names and quantities *)

MaxSaleRows == 3

s_A == <<"A">>
s_B == <<"B">>
s_C == <<"C">>

NameCells == {Str(s_A), Str(s_B), Str(s_C), Str(<<>>)}
SaleQuantityCells == {Num(1), Num(2), NaN}

BestCells == {<<n, q>> : n \in NameCells, q \in SaleQuantityCells}

(* a call of get_best_selling_products on a frame of sales rows *)
InitBest ==
    /\ pc = "best_products"
    /\ \E n \in 0..MaxSaleRows : \E f \in [1..n -> BestCells] : \E named \in BOOLEAN :
            in_sales = IF named
                       THEN Frame(<<c_name_ar, c_quantity>>, f)
                       ELSE Frame(<<c_quantity>>, [i \in 1..n |-> <<f[i][2]>>])
    /\ sales_file = in_sales
    /\ sales_df = in_sales
    /\ in_inventory = EmptyFrame
    /\ inventory_file = in_inventory
    /\ inventory_df = in_inventory
    /\ brand_settings_dict = <<>>
    /\ InitLocals

NextBest == BestStart \/ BestStep \/ BestFinish

SpecBest == InitBest /\ [][NextBest]_vars

----------------------------------------------------------------------------
(* Vocabulary of the properties, stated on the rows themselves *)

Brand(df, row) == Cell(df, row, c_brand)
Barcode(df, row) == Cell(df, row, c_barcode)
Quantity(df, row) == Cell(df, row, c_quantity)

Negative(df, row) == IsNum(Quantity(df, row)) /\ Quantity(df, row).n < 0

NegativeLabels(df) == {l \in IndexOf(df) : Negative(df, RowAt(df, l))}

(* o is a sale of the barcode, brand and exact quantity that refund r reverses *)
ExactMatch(df, r, o) ==
    /\ ~IsNaN(Barcode(df, r)) /\ Barcode(df, o) = Barcode(df, r)
    /\ ~IsNaN(Brand(df, r)) /\ Brand(df, o) = Brand(df, r)
    /\ IsNum(Quantity(df, o)) /\ Quantity(df, o).n > 0
    /\ Quantity(df, o).n = -Quantity(df, r).n

ExactMatches(df, r) == {l \in IndexOf(df) : ExactMatch(df, r, RowAt(df, l))}

ConsumedOriginals == {consumed[i][2] : i \in 1..Len(consumed)}

MinOf(S) == CHOOSE x \in S : \A y \in S : x <= y

InReconcile == pc \in {"refund_loop", "returned"}

----------------------------------------------------------------------------
(* C1: after every prefix of the refund loop the matching is at-most-one-  *)
(* to-one: every refund has consumed at most one row, that row is a        *)
(* non-refund row, no row is consumed by two refunds, and the removal set  *)
(* is the refunds plus exactly one row per recorded match.                 *)
C1_AtMostOneToOne ==
    /\ \A i, j \in 1..Len(consumed) :
          i # j => consumed[i][1] # consumed[j][1] /\ consumed[i][2] # consumed[j][2]
    /\ InReconcile =>
          \A i \in 1..Len(consumed) :
             /\ consumed[i][1] \in NegativeLabels(sales_df)
             /\ consumed[i][2] \in IndexOf(sales_df) \ NegativeLabels(sales_df)
    /\ pc = "refund_loop" =>
          /\ indices_to_remove = NegativeLabels(sales_df) \cup ConsumedOriginals
          /\ Cardinality(indices_to_remove) =
                Cardinality(NegativeLabels(sales_df)) + Len(consumed)

(* two refunds of one barcode, brand and quantity have consumed two originals *)
C1_Witness ==
    /\ InReconcile
    /\ Len(consumed) = 2
    /\ LET r1 == RowAt(sales_df, consumed[1][1])
           r2 == RowAt(sales_df, consumed[2][1])
       IN r1.cells = r2.cells
    /\ consumed[1][2] # consumed[2][2]

(* C2: with one refund and exactly one row of the same barcode, brand and  *)
(* exact positive quantity, reconcile removes exactly the refund and that  *)
(* row; every other row survives; removedCount = 2 and refundCount = 1.    *)
C2_SingleMatchRemovesPair ==
    (/\ pc = "returned"
     /\ Cardinality(NegativeLabels(sales_df)) = 1
     /\ \A r \in NegativeLabels(sales_df) :
            Cardinality(ExactMatches(sales_df, RowAt(sales_df, r))) = 1)
    => \A r \in NegativeLabels(sales_df) : \A o \in ExactMatches(sales_df, RowAt(sales_df, r)) :
          /\ cleaned_df.rows = SelectRows(sales_df.rows, IndexOf(sales_df) \ {r, o})
          /\ cleaned_df.columns = sales_df.columns
          /\ removed_count = 2
          /\ refund_count = 1

C2_Witness ==
    /\ pc = "returned"
    /\ Len(sales_df.rows) = 4
    /\ Cardinality(NegativeLabels(sales_df)) = 1
    /\ \A r \in NegativeLabels(sales_df) :
          /\ Cardinality(ExactMatches(sales_df, RowAt(sales_df, r))) = 1
          /\ \E l \in IndexOf(sales_df) :
                /\ l < MinOf(ExactMatches(sales_df, RowAt(sales_df, r)))
                /\ Quantity(sales_df, RowAt(sales_df, l)) = Num(1)

(* C3: a row set without a negative quantity is returned as it is, same    *)
(* rows in the same order, with both counts 0; and what reconcile returns  *)
(* never holds a negative quantity, so a second run returns it unchanged.  *)
C3_NoRefundsUnchanged ==
    pc = "returned" =>
        /\ NegativeLabels(sales_df) = {} =>
              /\ cleaned_df = sales_df
              /\ refund_count = 0
              /\ removed_count = 0
        /\ NegativeLabels(cleaned_df) = {}

C3_Witness ==
    /\ pc = "returned"
    /\ NegativeLabels(sales_df) = {}
    /\ Len(cleaned_df.rows) = 3
    /\ \E l \in IndexOf(sales_df) : Quantity(sales_df, RowAt(sales_df, l)) = Num(0)

(* C4: a refund that has no not-yet-removed row of the same barcode, brand *)
(* and exact positive quantity adds nothing to the removal set and raises  *)
(* no error, and the refund itself is absent from the returned rows.       *)
C4_UnmatchedRefundDropped ==
    [][/\ (/\ pc = "refund_loop"
           /\ ri <= Len(refunds)
           /\ ExactMatches(sales_df, refunds[ri]) \ indices_to_remove = {})
          => /\ indices_to_remove' = indices_to_remove
             /\ consumed' = consumed
             /\ pc' # "error"
       /\ pc' = "returned" =>
             /\ NegativeLabels(sales_df) \cap IndexOf(cleaned_df') = {}
             /\ Len(sales_df.rows) - Len(cleaned_df'.rows) =
                   Cardinality(NegativeLabels(sales_df)) + Len(consumed')
      ]_vars

(* an unmatched refund next to rows that differ in quantity, brand or barcode only *)
C4_Witness ==
    /\ pc = "returned"
    /\ refund_count = 1
    /\ consumed = <<>>
    /\ Len(cleaned_df.rows) = 3
    /\ \A r \in NegativeLabels(sales_df) :
          LET rr == RowAt(sales_df, r)
          IN /\ \E l \in IndexOf(sales_df) :
                   /\ Brand(sales_df, RowAt(sales_df, l)) = Brand(sales_df, rr)
                   /\ Barcode(sales_df, RowAt(sales_df, l)) = Barcode(sales_df, rr)
                   /\ Quantity(sales_df, RowAt(sales_df, l)).n > -Quantity(sales_df, rr).n
             /\ \E l \in IndexOf(sales_df) :
                   /\ Brand(sales_df, RowAt(sales_df, l)) # Brand(sales_df, rr)
                   /\ Barcode(sales_df, RowAt(sales_df, l)) = Barcode(sales_df, rr)
                   /\ Quantity(sales_df, RowAt(sales_df, l)).n = -Quantity(sales_df, rr).n
             /\ \E l \in IndexOf(sales_df) :
                   /\ Brand(sales_df, RowAt(sales_df, l)) = Brand(sales_df, rr)
                   /\ Barcode(sales_df, RowAt(sales_df, l)) # Barcode(sales_df, rr)
                   /\ Quantity(sales_df, RowAt(sales_df, l)).n = -Quantity(sales_df, rr).n

(* C5: the loop takes the refunds in original row order, and a refund with *)
(* one or more not-yet-removed exact matches consumes the one with the     *)
(* lowest original row index; each step is determined by the rows alone.   *)
C5_LowestIndexConsumed ==
    [][(pc = "refund_loop" /\ ri <= Len(refunds)) =>
          LET r == refunds[ri]
              open == ExactMatches(sales_df, r) \ indices_to_remove
          IN /\ r.idx \in NegativeLabels(sales_df)
             /\ Cardinality({l \in NegativeLabels(sales_df) : l < r.idx}) = ri - 1
             /\ open # {} =>
                   /\ consumed' = Append(consumed, <<r.idx, MinOf(open)>>)
                   /\ indices_to_remove' = indices_to_remove \cup {MinOf(open)}
             /\ ri' = ri + 1
      ]_vars

(* the first refund had two qualifying rows and took the lower one *)
C5_Witness ==
    /\ pc = "returned"
    /\ Len(consumed) = 2
    /\ \E l \in ExactMatches(sales_df, RowAt(sales_df, consumed[1][1])) :
          l > consumed[1][2]
    /\ consumed[1][1] < consumed[2][1]
    /\ consumed[2][2] < consumed[1][1]

(* C6: reconcile returns the surviving rows in their original relative     *)
(* order, refundCount = the number of rows with quantity < 0, and          *)
(* removedCount = refundCount + the number of originals consumed.          *)
C6_OrderAndCounts ==
    pc = "returned" =>
        /\ \A i \in 1..Len(cleaned_df.rows) :
              /\ cleaned_df.rows[i].idx \in IndexOf(sales_df)
              /\ cleaned_df.rows[i] = RowAt(sales_df, cleaned_df.rows[i].idx)
              /\ \A j \in 1..(i - 1) : cleaned_df.rows[j].idx < cleaned_df.rows[i].idx
        /\ IndexOf(cleaned_df) =
              IndexOf(sales_df) \ (NegativeLabels(sales_df) \cup ConsumedOriginals)
        /\ refund_count = Cardinality(NegativeLabels(sales_df))
        /\ removed_count = refund_count + Len(consumed)
        /\ removed_count = Len(sales_df.rows) - Len(cleaned_df.rows)

(* two refunds, one of them matched, and one row survives *)
C6_Witness ==
    /\ pc = "returned"
    /\ refund_count = 2
    /\ removed_count = 3
    /\ Len(cleaned_df.rows) = 1

----------------------------------------------------------------------------
(* Vocabulary of the pipeline properties *)

AfterNormalization ==
    pc \in {"reconcile", "refund_loop", "returned", "brand_loop", "done"}

(* the labels of the sheet rows in which every cell is empty *)
EmptySheetRows(sheet) == {l \in IndexOf(sheet) : AllNaN(RowAt(sheet, l))}

RECURSIVE SumReports(_)
SumReports(rs) ==
    IF rs = <<>> THEN 0 ELSE Head(rs).total_sales_money + SumReports(Tail(rs))

(* C7: a malformed (non-numeric) quantity or price in a row is treated as  *)
(* zero and never makes the run raise: with the required columns present   *)
(* the run never reaches an error state.                                   *)
C7_NeverRaises == pc # "error"

(* C8: no fully-empty input row reaches reconciliation, brand detection or *)
(* the per-brand output, and such a row never creates a brand of its own.  *)
C8_EmptyRowsDropped ==
    AfterNormalization =>
        /\ IndexOf(sales_df) \cap EmptySheetRows(sales_file) = {}
        /\ IndexOf(inventory_df) \cap EmptySheetRows(inventory_file) = {}
        /\ \A i \in 1..Len(reports) :
              \E l \in IndexOf(sales_file) \ EmptySheetRows(sales_file) :
                 CleanBrand(Cell(sales_file, RowAt(sales_file, l),
                                 sales_file.columns[1])).s = reports[i].brand

(* C9: normalization does not touch its input: the caller's sales and      *)
(* inventory frames keep the column names and the brand values they had    *)
(* when they were read.                                                    *)
C9_InputNotMutated ==
    /\ in_sales.columns = sales_file.columns
    /\ in_inventory.columns = inventory_file.columns
    /\ \A i \in 1..Len(in_sales.rows) :
          in_sales.rows[i].cells[1] = sales_file.rows[i].cells[1]
    /\ \A i \in 1..Len(in_inventory.rows) :
          in_inventory.rows[i].cells[1] = inventory_file.rows[i].cells[1]

(* C10: the per-brand sales-money totals of the reported brands add up to  *)
(* the 'Total Sales (Money)' of the summary.                               *)
C10_BrandTotalsSumToSummary ==
    pc = "done" => summary[1].total_sales_money = Num(SumReports(reports))

----------------------------------------------------------------------------
(* Vocabulary of the best-selling-products property *)

NamedRows(df, name) ==
    {i \in 1..Len(df.rows) : AsStr(Cell(df, df.rows[i], c_name_ar)) = name}

ProductNames(df) ==
    {AsStr(Cell(df, df.rows[i], c_name_ar)) : i \in 1..Len(df.rows)} \ {<<>>}

RECURSIVE SumOver(_, _)
SumOver(df, I) ==
    IF I = {} THEN 0
    ELSE LET i == CHOOSE x \in I : TRUE
         IN Cell(df, df.rows[i], c_quantity).n + SumOver(df, I \ {i})

SummedQuantity(df, name) == SumOver(df, NamedRows(df, name))

TopNames(df) ==
    {n \in ProductNames(df) :
        \A m \in ProductNames(df) : SummedQuantity(df, n) >= SummedQuantity(df, m)}

FirstRowOf(df, name) == MinOf(NamedRows(df, name))

NumericQuantities(df) ==
    \A i \in 1..Len(df.rows) : IsNum(Cell(df, df.rows[i], c_quantity))

BestCase ==
    /\ pc = "best_done"
    /\ HasColumn(sales_df, c_name_ar)
    /\ HasColumn(sales_df, c_quantity)
    /\ NumericQuantities(sales_df)
    /\ ProductNames(sales_df) # {}

----------------------------------------------------------------------------
(* Vocabulary of the per-triple property *)

(* the sales that carry a barcode and a brand, i.e. that define a triple *)
PositiveLabels(df) ==
    {l \in IndexOf(df) :
        /\ IsNum(Quantity(df, RowAt(df, l))) /\ Quantity(df, RowAt(df, l)).n > 0
        /\ ~IsNaN(Barcode(df, RowAt(df, l)))
        /\ ~IsNaN(Brand(df, RowAt(df, l)))}

(* the rows of the barcode, brand and quantity of sale o *)
SalesOfTriple(df, o) ==
    {l \in IndexOf(df) :
        /\ Brand(df, RowAt(df, l)) = Brand(df, o)
        /\ Barcode(df, RowAt(df, l)) = Barcode(df, o)
        /\ Quantity(df, RowAt(df, l)) = Quantity(df, o)}

(* the refunds of the barcode and brand of sale o with the negated quantity *)
RefundsOfTriple(df, o) ==
    {l \in IndexOf(df) :
        /\ Brand(df, RowAt(df, l)) = Brand(df, o)
        /\ Barcode(df, RowAt(df, l)) = Barcode(df, o)
        /\ Quantity(df, RowAt(df, l)) = Num(-Quantity(df, o).n)}

MinNat(a, b) == IF a <= b THEN a ELSE b

(* C12: for every (barcode, brand, quantity q > 0) the number of rows of   *)
(* that triple removed by reconcile is min(refunds with -q, rows with q),  *)
(* the removed ones are the lowest-indexed rows of the triple, and no      *)
(* refund stays unmatched while a qualifying row survives.                 *)
C12_GreedyMatchesMinimum ==
    pc = "returned" =>
        \A p \in PositiveLabels(sales_df) :
           LET o == RowAt(sales_df, p)
               sold == SalesOfTriple(sales_df, o)
               refunded == RefundsOfTriple(sales_df, o)
               removed == sold \ IndexOf(cleaned_df)
               matched == {i \in 1..Len(consumed) : consumed[i][1] \in refunded}
           IN /\ Cardinality(removed) =
                    MinNat(Cardinality(refunded), Cardinality(sold))
              /\ \A a \in removed : \A b \in sold \ removed : a < b
              /\ removed = {consumed[i][2] : i \in matched}
              /\ Cardinality(matched) < Cardinality(refunded) => sold \ removed = {}

(* one refund placed before two sales of its triple: only the lower sale is removed *)
C12_Witness ==
    /\ pc = "returned"
    /\ Len(sales_df.rows) = MaxRows
    /\ \E p \in PositiveLabels(sales_df) :
          LET o == RowAt(sales_df, p)
          IN /\ Cardinality(SalesOfTriple(sales_df, o)) = 2
             /\ Cardinality(RefundsOfTriple(sales_df, o)) = 1
             /\ \A r \in RefundsOfTriple(sales_df, o) : r < p
             /\ Cardinality(SalesOfTriple(sales_df, o) \ IndexOf(cleaned_df)) = 1

----------------------------------------------------------------------------
(* Vocabulary of the deductions property *)

RECURSIVE SumAfterRent(_)
SumAfterRent(rs) ==
    IF rs = <<>> THEN 0 ELSE Head(rs).total_after_rent_x100 + SumAfterRent(Tail(rs))

ReportedBrands == {reports[i].brand : i \in 1..Len(reports)}

RECURSIVE SumRent(_)
(* the rent of the reported brands, zero for a brand outside the settings mapping *)
SumRent(rs) ==
    IF rs = <<>> THEN 0
    ELSE (IF Head(rs).brand \in DOMAIN brand_settings_dict
          THEN brand_settings_dict[Head(rs).brand].rent_amount ELSE 0)
         + SumRent(Tail(rs))

(* C13: the summary's 'Total Sales After All Deductions' equals the sum of *)
(* the money-after-rent of the brands that received a report; only sales   *)
(* brands are deducted, with zero percentage and rent outside the mapping. *)
C13_AfterDeductionsEqualsBrandSum ==
    pc = "done" =>
        /\ summary[1].total_rent_deducted = SumRent(reports)
        /\ summary[1].total_after_all_deductions_x100 = Num(SumAfterRent(reports))

====
